---- MODULE Spec2Model ----
(***************************************************************************)
(* Region selector and map-area capture pipeline of MapSection             *)
(* (src/components/MapComponent.tsx), as a state machine.                  *)
(*                                                                         *)
(* Geometry.  Geographic points are points of an integer "world" plane     *)
(* whose y axis grows southwards, as the pixel plane of the map does.  One *)
(* world unit is SubTile pixels at zoom INITIAL_ZOOM and doubles with each *)
(* zoom level.  The Mercator projection of the map clamps the latitude, so *)
(* every world y north of the world's edge (y < 0) projects onto the edge. *)
(* Canvases are sampled on the lattice of stride SubTile pixels: every     *)
(* coordinate the model produces is a multiple of SubTile, so one lattice  *)
(* cell is never split by a tile border.                                   *)
(***************************************************************************)
EXTENDS Integers, Sequences, FiniteSets, TLC

\* ------------------------------------------------------------- bounds
MaxCenterY == 1          \* map centres: y in -PanBeyond..MaxCenterY
PanBeyond == 1           \* how far north of the world's edge a centre may be
MaxListeners == 4        \* radius changes stop once this many listeners exist
MaxPermTiles == 4        \* draw orders are enumerated for at most this many tiles
MaxBoxCoord == 9         \* pixel boxes of SpecTiles: corners in SubTile * (-1..MaxBoxCoord)
MaxFetchCoord == 4       \* pixel boxes of FairFetch: corners in SubTile * (0..MaxFetchCoord)
MaxImages == 2           \* File objects alive at a time in the Analysis section
MaxParts == 2            \* parts of an AI response
MaxRequests == 2         \* calls of analyzeImageForBiodiversity outstanding at a time
MaxFetches == 3          \* calls of fetchHtml outstanding at a time
MaxReportRequests == 2   \* calls of getSustainabilityReport outstanding at a time

\* -------------------------------------------------- program constants
tileSize == 256
INITIAL_ZOOM == 10
RadiusStep == 100
SubTile == tileSize \div 4

\* The tile source of the capture and the sources of the selectable layers.
SATELLITE_TILE_URL == "server.arcgisonline.com/ArcGIS/rest/services/World_Imagery/MapServer/tile/{z}/{y}/{x}"
MAP_LAYERS ==
    << [id |-> "default", url |-> "{s}.tile.openstreetmap.org/{z}/{x}/{y}.png"],
       [id |-> "urbanAreas", url |-> "{s}.tile.opentopomap.org/{z}/{x}/{y}.png"],
       [id |-> "vegetation", url |-> "tile.thunderforest.com/cycle/{z}/{x}/{y}.png"],
       [id |-> "waterBodies", url |-> "tile.thunderforest.com/landscape/{z}/{x}/{y}.png"],
       [id |-> "transport", url |-> "tile.thunderforest.com/transport/{z}/{x}/{y}.png"],
       [id |-> "railways", url |-> "tile.thunderforest.com/atlas/{z}/{x}/{y}.png"] >>

NoBounds == [none |-> TRUE]
NoError == "null"
CaptureError == "Could not capture map view. Please try again."

\* The slider positions modelled: 0 and one step.
Radii == {0, RadiusStep}
\* The map centres modelled: one column of the world plane, from north of its
\* edge southwards.
Centers == {[x |-> 2, y |-> cy] : cy \in (0 - PanBeyond)..MaxCenterY}
\* The zoom levels modelled.
Zooms == {INITIAL_ZOOM, INITIAL_ZOOM + 1}
LandCoverSamples == {"sampleA", "sampleB"}

VARIABLES
    radius,            \* useState radius (metres)
    mapInstance,       \* useState mapInstance: FALSE is null
    analysisBounds,    \* useState analysisBounds: NoBounds is null
    landCoverData,     \* useState landCoverData
    center,            \* the map's centre (mapInstance.getCenter())
    zoom,              \* the map's zoom (mapInstance.getZoom())
    mapRef,            \* MapComponent's mapRef.current is set
    listeners,         \* updateAll closures registered on moveend/zoomend, in order
    pendingEvents,     \* map events raised and not yet delivered
    fx,                \* passive effects of the last render still to run
    fxMi               \* mapInstance as the render with pending effects saw it

regionVars == <<radius, mapInstance, analysisBounds, landCoverData, center, zoom,
                mapRef, listeners, pendingEvents, fx, fxMi>>

VARIABLES
    pc,                \* where handleAnalyzeMapView is suspended: idle, wait, fetch, blob
    isMapViewLoading,  \* useState isMapViewLoading
    mapViewError,      \* useState mapViewError
    capBounds,         \* analysisBounds as the running handler closed over it
    capZoom,           \* const zoom of the running handler
    pixelBounds,       \* const pixelBounds of the running handler
    tilePromises,      \* the tile requests issued, in the order of the loops
    tileStatus,        \* per request: pending, loaded, failed
    stitchCanvas,      \* the stitching canvas
    finalCanvas,       \* the final canvas
    dispatched,        \* the files handed to onAnalyzeFromMap by this capture
    stages,            \* the stages this capture has run, in order
    inFlight           \* invocations of the handler past the guard, not yet through finally

captureVars == <<pc, isMapViewLoading, mapViewError, capBounds, capZoom, pixelBounds,
                 tilePromises, tileStatus, stitchCanvas, finalCanvas, dispatched, stages,
                 inFlight>>

VARIABLES
    mapImageForAnalysis,  \* App: useState mapImageForAnalysis (AnalysisSection's imageFromMap)
    startAnalysis,        \* App: useState startAnalysis
    imageFile,            \* AnalysisSection: useState imageFile
    previewImage,         \* AnalysisSection: useState previewImage
    analysisResult,       \* AnalysisSection: useState analysisResult
    isLoading,            \* AnalysisSection: useState isLoading
    error,                \* AnalysisSection: useState error
    readers,              \* the files whose FileReader has not called onloadend yet
    requests,             \* the calls of analyzeImageForBiodiversity not yet settled
    effectCalls           \* calls made by the effect on startAnalysis since the last
                          \* call of handleAnalyzeFromMap

analysisVars == <<mapImageForAnalysis, startAnalysis, imageFile, previewImage,
                  analysisResult, isLoading, error, readers, requests, effectCalls>>

VARIABLES
    sustainabilityReport, \* App: useState sustainabilityReport
    isReportLoading,      \* App: useState isReportLoading
    reportError,          \* App: useState reportError
    reportRequests,       \* the calls of getSustainabilityReport not yet settled
    insights,             \* MapSection: useState insights
    isInsightsLoading,    \* MapSection: useState isInsightsLoading
    insightsError,        \* MapSection: useState insightsError
    insightsRequests,     \* the calls of getMapInsights not yet settled
    selectedTopics,       \* MapSection: useState selectedTopics
    customTopic           \* MapSection: useState customTopic

serviceVars == <<sustainabilityReport, isReportLoading, reportError, reportRequests,
                 insights, isInsightsLoading, insightsError, insightsRequests,
                 selectedTopics, customTopic>>

VARIABLE
    activeLayer           \* MapSection: useState activeLayer (the layer shown by TileLayer)

\* The state of App, AnalysisSection, the AI panels and the layer selector: no
\* action of the region selection or of a running capture reads or writes it.
VARIABLES
    url,                  \* LocalMapIframe: the url prop (AnalysisSection's activeRiskMap)
    htmlContent,          \* LocalMapIframe: useState htmlContent
    iframeIsLoading,      \* LocalMapIframe: useState isLoading
    iframeError,          \* LocalMapIframe: useState error
    fetches               \* the calls of fetchHtml not yet through finally

iframeVars == <<url, htmlContent, iframeIsLoading, iframeError, fetches>>

appVars == <<analysisVars, serviceVars, activeLayer, iframeVars>>

\* ------------------------------------------------------------ geometry
\* LatLng.toBounds(sizeInMeters): the square of that side around the point.
toBounds(c, sizeInMeters) ==
    LET half == (sizeInMeters \div 2) \div RadiusStep
    IN  [west |-> c.x - half, east |-> c.x + half,
         north |-> c.y - half, south |-> c.y + half]

\* Mutant of updateAnalysisBounds: the radius test lets 0 through.
updateAnalysisBounds_ZeroRadius(mi, r, c, ab) ==
    IF mi
    THEN IF r >= 0 THEN [west |-> c.x - (r \div RadiusStep), east |-> c.x + (r \div RadiusStep),
                         north |-> c.y - (r \div RadiusStep), south |-> c.y + (r \div RadiusStep)]
                   ELSE NoBounds
    ELSE ab

\* updateAnalysisBounds as closed over (mapInstance, radius) = (mi, r): the next
\* value of analysisBounds when it is called with the map centred on c.
updateAnalysisBounds(mi, r, c, ab) ==
    IF mi
    THEN IF r > 0 THEN toBounds(c, r * 2) ELSE NoBounds
    ELSE ab

\* Mutant of updateAll: the listeners run in reverse order of registration.
RECURSIVE updateAll_Reversed(_, _, _)
updateAll_Reversed(ls, c, ab) ==
    IF ls = <<>> THEN ab
    ELSE LET n == Len(ls)
         IN  updateAll_Reversed(SubSeq(ls, 1, n - 1), c,
                                updateAnalysisBounds(ls[n].mi, ls[n].r, c, ab))

\* updateAll of every registered listener, in registration order: each calls
\* setAnalysisBounds, the last call decides the state.
RECURSIVE updateAll(_, _, _)
updateAll(ls, c, ab) ==
    IF ls = <<>> THEN ab
    ELSE updateAll(Tail(ls), c, updateAnalysisBounds(Head(ls).mi, Head(ls).r, c, ab))

\* 2^n
RECURSIVE Pow2(_)
Pow2(n) == IF n <= 0 THEN 1 ELSE 2 * Pow2(n - 1)

\* Pixels per world unit at a zoom level.
Scale(z) == SubTile * Pow2(z - INITIAL_ZOOM)

\* mapInstance.project(latlng, zoom): the latitude is clamped to the world.
project(p, z) == [x |-> p.x * Scale(z), y |-> (IF p.y < 0 THEN 0 ELSE p.y) * Scale(z)]

getNorthWest(b) == [x |-> b.west, y |-> b.north]
getSouthEast(b) == [x |-> b.east, y |-> b.south]

Min2(a, b) == IF a <= b THEN a ELSE b
Max2(a, b) == IF a >= b THEN a ELSE b

\* L.bounds(a, b): the rectangle spanned by two points.
LBounds(a, b) ==
    [min |-> [x |-> Min2(a.x, b.x), y |-> Min2(a.y, b.y)],
     max |-> [x |-> Max2(a.x, b.x), y |-> Max2(a.y, b.y)]]

\* Bounds.getSize()
getSize(pb) == [x |-> pb.max.x - pb.min.x, y |-> pb.max.y - pb.min.y]

\* fitBounds(bounds): the centre the map moves to (the middle of the projected
\* corners, unprojected).
FitCenter(b) ==
    [x |-> (b.west + b.east) \div 2,
     y |-> ((IF b.north < 0 THEN 0 ELSE b.north) + (IF b.south < 0 THEN 0 ELSE b.south)) \div 2]

\* Mutant of tileRange: the lower corner rounded up instead of down.
tileRange_CeilMin(pb) ==
    LBounds([x |-> (pb.min.x + tileSize - 1) \div tileSize,
             y |-> (pb.min.y + tileSize - 1) \div tileSize],
            [x |-> pb.max.x \div tileSize, y |-> pb.max.y \div tileSize])

\* Mutant of tileRange: the upper corner as ceil(max / tileSize) - 1.
tileRange_CeilMax(pb) ==
    LBounds([x |-> pb.min.x \div tileSize, y |-> pb.min.y \div tileSize],
            [x |-> ((pb.max.x + tileSize - 1) \div tileSize) - 1,
             y |-> ((pb.max.y + tileSize - 1) \div tileSize) - 1])

\* L.bounds(min.divideBy(tileSize).floor(), max.divideBy(tileSize).floor())
tileRange(pb) ==
    LBounds([x |-> pb.min.x \div tileSize, y |-> pb.min.y \div tileSize],
            [x |-> pb.max.x \div tileSize, y |-> pb.max.y \div tileSize])

\* The requests pushed by the two loops, x outside and y inside.
TileRequests(pb) ==
    LET tr == tileRange(pb)
        nx == tr.max.x - tr.min.x + 1
        ny == tr.max.y - tr.min.y + 1
    IN  [i \in 1..(nx * ny) |->
            [x |-> tr.min.x + ((i - 1) \div ny), y |-> tr.min.y + ((i - 1) % ny)]]

\* Mutant of tileUrl: the template of the layer shown on the map.
tileUrl_ActiveLayer(t, z) == [template |-> activeLayer.url, z |-> z, y |-> t.y, x |-> t.x]

\* SATELLITE_TILE_URL.replace('{z}', zoom).replace('{y}', y).replace('{x}', x)
tileUrl(t, z) == [template |-> SATELLITE_TILE_URL, z |-> z, y |-> t.y, x |-> t.x]

\* A canvas of w x h pixels, sampled every SubTile pixels; nothing drawn yet.
Lattice(n) == {SubTile * k : k \in 0..((n \div SubTile) - 1)}
createCanvas(w, h) ==
    [width |-> w, height |-> h,
     px |-> [p \in Lattice(w) \X Lattice(h) |-> <<"blank">>]]

\* Mutant of drawImage: an image that does not lie wholly inside the canvas is
\* not drawn at all.
drawImage_RejectClipped(cv, t, canvasX, canvasY) ==
    IF /\ 0 <= canvasX /\ canvasX + tileSize <= cv.width
       /\ 0 <= canvasY /\ canvasY + tileSize <= cv.height
    THEN [cv EXCEPT !.px =
            [p \in DOMAIN cv.px |->
                IF /\ canvasX <= p[1] /\ p[1] < canvasX + tileSize
                   /\ canvasY <= p[2] /\ p[2] < canvasY + tileSize
                THEN <<"tile", t.x, t.y, p[1] - canvasX, p[2] - canvasY>>
                ELSE cv.px[p]]]
    ELSE cv

\* ctx.drawImage(img, canvasX, canvasY) for the tileSize x tileSize image of
\* tile t: the part of the image inside the canvas replaces what was there.
drawImage(cv, t, canvasX, canvasY) ==
    [cv EXCEPT !.px =
        [p \in DOMAIN cv.px |->
            IF /\ canvasX <= p[1] /\ p[1] < canvasX + tileSize
               /\ canvasY <= p[2] /\ p[2] < canvasY + tileSize
            THEN <<"tile", t.x, t.y, p[1] - canvasX, p[2] - canvasY>>
            ELSE cv.px[p]]]

\* Mutant of drawTile: canvasY computed from the tile's x.
drawTile_YFromX(cv, t, pb) ==
    LET canvasX == t.x * tileSize - pb.min.x
        canvasY == t.x * tileSize - pb.min.y
    IN  drawImage(cv, t, canvasX, canvasY)

\* One step of tiles.forEach: place a tile by its own index.
drawTile(cv, t, pb) ==
    LET canvasX == t.x * tileSize - pb.min.x
        canvasY == t.y * tileSize - pb.min.y
    IN  drawImage(cv, t, canvasX, canvasY)

\* tiles.forEach(...) over the resolved tiles, in array order.
RECURSIVE stitch(_, _, _)
stitch(cv, tiles, pb) ==
    IF tiles = <<>> THEN cv
    ELSE stitch(drawTile(cv, Head(tiles), pb), Tail(tiles), pb)

\* finalCtx.drawImage(stitchCanvas, 0, 0, w, h, 0, 0, finalSize.x, finalSize.y)
resample(cv) == [scaledFrom |-> cv]

\* new File([blob], "map-view.png", { type: "image/png" })
newFile(cv) == [name |-> "map-view.png", type |-> "image/png", image |-> cv]

vars == <<regionVars, captureVars, appVars>>

\* ------------------------------------------------------ region selector
\* calculateLandPercentages(): a fresh random sample.
calculateLandPercentages == LandCoverSamples

\* const [..] = useState(..) of MapSection and the map before it exists;
\* the effects of the first render are still to run.
InitRegion ==
    /\ radius = 0
    /\ mapInstance = FALSE
    /\ analysisBounds = NoBounds
    /\ landCoverData \in calculateLandPercentages
    /\ center = [x |-> 2, y |-> MaxCenterY]
    /\ zoom = INITIAL_ZOOM
    /\ mapRef = FALSE
    /\ listeners = <<>>
    /\ pendingEvents = {}
    /\ fx = "child"
    /\ fxMi = FALSE

\* MapContainer creates the Leaflet map and sets the forwarded ref.
MapCreated ==
    /\ ~mapRef
    /\ mapRef' = TRUE
    /\ UNCHANGED <<radius, mapInstance, analysisBounds, landCoverData, center, zoom,
                   listeners, pendingEvents, fx, fxMi>>
    /\ UNCHANGED captureVars
    /\ UNCHANGED appVars

\* The radius slider's onChange: setRadius, then a render in which
\* updateAnalysisBounds and handleMapInstance are new closures.
SetRadius(r) ==
    /\ fx = "none"
    /\ r # radius
    /\ Len(listeners) < MaxListeners
    /\ radius' = r
    /\ fx' = "child"
    /\ fxMi' = mapInstance
    /\ UNCHANGED <<mapInstance, analysisBounds, landCoverData, center, zoom, mapRef,
                   listeners, pendingEvents>>
    /\ UNCHANGED captureVars
    /\ UNCHANGED appVars

\* handleMapInstance(map) of the render that saw (fxMi, radius).
handleMapInstance ==
    /\ mapInstance' = TRUE
    /\ listeners' = Append(listeners, [mi |-> fxMi, r |-> radius])
    /\ analysisBounds' = updateAnalysisBounds(fxMi, radius, center, analysisBounds)

\* MapComponent's effect on [onMapChange].
MapComponentEffect ==
    /\ fx = "child"
    /\ IF mapRef THEN handleMapInstance
                 ELSE UNCHANGED <<mapInstance, listeners, analysisBounds>>
    /\ fx' = "parent"
    /\ UNCHANGED <<radius, landCoverData, center, zoom, mapRef, pendingEvents, fxMi>>
    /\ UNCHANGED captureVars
    /\ UNCHANGED appVars

\* MapSection's effect on [radius, updateAnalysisBounds]; when the child's
\* effect changed mapInstance, the next render follows with its own effects.
MapSectionEffect ==
    /\ fx = "parent"
    /\ analysisBounds' = updateAnalysisBounds(fxMi, radius, center, analysisBounds)
    /\ fx' = IF mapInstance # fxMi THEN "child" ELSE "none"
    /\ fxMi' = mapInstance
    /\ UNCHANGED <<radius, mapInstance, landCoverData, center, zoom, mapRef, listeners,
                   pendingEvents>>
    /\ UNCHANGED captureVars
    /\ UNCHANGED appVars

\* The user drags the map.
MapMove(c) ==
    /\ mapRef
    /\ c # center
    /\ center' = c
    /\ pendingEvents' = pendingEvents \cup {"moveend"}
    /\ UNCHANGED <<radius, mapInstance, analysisBounds, landCoverData, zoom, mapRef,
                   listeners, fx, fxMi>>
    /\ UNCHANGED captureVars
    /\ UNCHANGED appVars

\* handleZoomIn, handleZoomOut or the scroll wheel.
MapZoom(z) ==
    /\ mapRef
    /\ z # zoom
    /\ zoom' = z
    /\ pendingEvents' = pendingEvents \cup {"zoomend", "moveend"}
    /\ UNCHANGED <<radius, mapInstance, analysisBounds, landCoverData, center, mapRef,
                   listeners, fx, fxMi>>
    /\ UNCHANGED captureVars
    /\ UNCHANGED appVars

\* The map delivers moveend or zoomend: every registered updateAll runs.
FireEvent(e) ==
    /\ e \in pendingEvents
    /\ pendingEvents' = pendingEvents \ {e}
    /\ analysisBounds' = updateAll(listeners, center, analysisBounds)
    /\ IF listeners = <<>> THEN UNCHANGED landCoverData
                           ELSE landCoverData' \in calculateLandPercentages
    /\ UNCHANGED <<radius, mapInstance, center, zoom, mapRef, listeners, fx, fxMi>>
    /\ UNCHANGED captureVars
    /\ UNCHANGED appVars

InitCapture ==
    /\ pc = "idle"
    /\ isMapViewLoading = FALSE
    /\ mapViewError = NoError
    /\ capBounds = NoBounds
    /\ capZoom = 0
    /\ pixelBounds = NoBounds
    /\ tilePromises = <<>>
    /\ tileStatus = <<>>
    /\ stitchCanvas = NoBounds
    /\ finalCanvas = NoBounds
    /\ dispatched = <<>>
    /\ stages = <<>>
    /\ inFlight = 0

\* Mutant of AnalyzeButtonEnabled: disabled={!analysisBounds}.
AnalyzeButtonEnabled_IgnoresLoading == ~(analysisBounds = NoBounds)

\* The 'Analyze Map Area' button: disabled={isMapViewLoading || !analysisBounds}.
AnalyzeButtonEnabled == ~(isMapViewLoading \/ analysisBounds = NoBounds)

\* if (!mapInstance || !analysisBounds) return;
PassesGuard == mapInstance /\ analysisBounds # NoBounds

\* Mutant of fitBounds: the viewport is left where it is.
fitBounds_KeepView(b, z) ==
    /\ center' = center
    /\ zoom' = zoom
    /\ pendingEvents' = pendingEvents

\* mapInstance.fitBounds(analysisBounds): the map centres on the bounds at the
\* fitting zoom z and raises moveend (and zoomend when the zoom changes).
fitBounds(b, z) ==
    /\ center' = FitCenter(b)
    /\ zoom' = z
    /\ pendingEvents' = pendingEvents \cup (IF z # zoom THEN {"zoomend", "moveend"} ELSE {"moveend"})

\* Mutant of catchFinally: the catch block without the finally block.
catchFinally_NoRelease ==
    /\ mapViewError' = CaptureError
    /\ pc' = "idle"
    /\ inFlight' = inFlight - 1
    /\ UNCHANGED isMapViewLoading

\* catch (err) { setMapViewError(..) } finally { setIsMapViewLoading(false) }
catchFinally ==
    /\ mapViewError' = CaptureError
    /\ isMapViewLoading' = FALSE
    /\ pc' = "idle"
    /\ inFlight' = inFlight - 1

\* finally { setIsMapViewLoading(false) } after the try block ran to its end
finallyOnly ==
    /\ isMapViewLoading' = FALSE
    /\ pc' = "idle"
    /\ inFlight' = inFlight - 1
    /\ UNCHANGED mapViewError

\* Mutant of handleAnalyzeMapView: the zoom is read before the wait.
handleAnalyzeMapView_EarlyZoom ==
    IF ~PassesGuard
    THEN UNCHANGED <<regionVars, captureVars>>
    ELSE /\ inFlight' = inFlight + 1
         /\ isMapViewLoading' = TRUE
         /\ mapViewError' = NoError
         /\ capBounds' = analysisBounds
         /\ capZoom' = zoom
         /\ \E z \in Zooms : fitBounds(analysisBounds, z)
         /\ pc' = "wait"
         /\ pixelBounds' = NoBounds
         /\ tilePromises' = <<>>
         /\ tileStatus' = <<>>
         /\ stitchCanvas' = NoBounds
         /\ finalCanvas' = NoBounds
         /\ dispatched' = <<>>
         /\ stages' = <<"fit", "wait">>
         /\ UNCHANGED <<radius, mapInstance, analysisBounds, landCoverData, mapRef,
                        listeners, fx, fxMi>>

\* handleAnalyzeMapView, from its first line to the await of the 500 ms timer.
handleAnalyzeMapView ==
    IF ~PassesGuard
    THEN UNCHANGED <<regionVars, captureVars>>
    ELSE /\ inFlight' = inFlight + 1
         /\ isMapViewLoading' = TRUE
         /\ mapViewError' = NoError
         /\ capBounds' = analysisBounds
         /\ \E z \in Zooms : fitBounds(analysisBounds, z)
         /\ pc' = "wait"
         /\ capZoom' = 0
         /\ pixelBounds' = NoBounds
         /\ tilePromises' = <<>>
         /\ tileStatus' = <<>>
         /\ stitchCanvas' = NoBounds
         /\ finalCanvas' = NoBounds
         /\ dispatched' = <<>>
         /\ stages' = <<"fit", "wait">>
         /\ UNCHANGED <<radius, mapInstance, analysisBounds, landCoverData, mapRef,
                        listeners, fx, fxMi>>

\* The user clicks 'Analyze Map Area': the button as last rendered is enabled.
ClickAnalyze ==
    /\ AnalyzeButtonEnabled
    /\ handleAnalyzeMapView
    /\ UNCHANGED appVars

\* Mutant of requestTiles: without the zero-size check.
requestTiles_NoSizeCheck(pb, ctx) ==
    LET size == getSize(pb)
    IN  /\ pixelBounds' = pb
        /\ stitchCanvas' = createCanvas(size.x, size.y)
        /\ IF ~ctx
           THEN /\ catchFinally
                /\ stages' = Append(stages, "project")
                /\ UNCHANGED <<tilePromises, tileStatus>>
           ELSE /\ tilePromises' = TileRequests(pb)
                /\ tileStatus' = [i \in DOMAIN TileRequests(pb) |-> "pending"]
                /\ pc' = "fetch"
                /\ stages' = stages \o <<"project", "fetch">>
                /\ UNCHANGED <<isMapViewLoading, mapViewError, inFlight>>

\* Steps 1 to 4 of the handler for the pixel bounds pb: the size check, the
\* stitching canvas (ctx: getContext returned a context) and the tile requests.
requestTiles(pb, ctx) ==
    LET size == getSize(pb)
    IN  /\ pixelBounds' = pb
        /\ IF size.x = 0 \/ size.y = 0
           THEN /\ catchFinally
                /\ stages' = Append(stages, "project")
                /\ UNCHANGED <<stitchCanvas, tilePromises, tileStatus>>
           ELSE /\ stitchCanvas' = createCanvas(size.x, size.y)
                /\ IF ~ctx
                   THEN /\ catchFinally
                        /\ stages' = Append(stages, "project")
                        /\ UNCHANGED <<tilePromises, tileStatus>>
                   ELSE /\ tilePromises' = TileRequests(pb)
                        /\ tileStatus' = [i \in DOMAIN TileRequests(pb) |-> "pending"]
                        /\ pc' = "fetch"
                        /\ stages' = stages \o <<"project", "fetch">>
                        /\ UNCHANGED <<isMapViewLoading, mapViewError, inFlight>>

\* Mutant of AfterWait: the bounds are read from the state when the timer fires;
\* without bounds the capture is given up.
AfterWait_CurrentBounds ==
    /\ pc = "wait"
    /\ capZoom' = zoom
    /\ IF analysisBounds = NoBounds
       THEN /\ finallyOnly
            /\ UNCHANGED <<pixelBounds, stitchCanvas, tilePromises, tileStatus, stages>>
       ELSE \E ctx \in BOOLEAN :
               requestTiles(LBounds(project(getNorthWest(analysisBounds), zoom),
                                    project(getSouthEast(analysisBounds), zoom)), ctx)
    /\ UNCHANGED <<capBounds, finalCanvas, dispatched>>
    /\ UNCHANGED regionVars
    /\ UNCHANGED appVars

\* The 500 ms timer fires: the handler reads the zoom, projects the bounds it
\* closed over and goes on to the tile requests.
AfterWait ==
    /\ pc = "wait"
    /\ capZoom' = zoom
    /\ \E ctx \in BOOLEAN :
          requestTiles(LBounds(project(getNorthWest(capBounds), zoom),
                               project(getSouthEast(capBounds), zoom)), ctx)
    /\ UNCHANGED <<capBounds, finalCanvas, dispatched>>
    /\ UNCHANGED regionVars
    /\ UNCHANGED appVars

AllLoaded(st) == \A i \in DOMAIN st : st[i] = "loaded"

\* Steps 5 and 6, run when Promise.all resolves with the tiles in the order of
\* tilePromises (fctx: the final canvas gave a context).
stitchAndResample(fctx) ==
    /\ stitchCanvas' = stitch(stitchCanvas, tilePromises, pixelBounds)
    /\ IF fctx
       THEN /\ finalCanvas' = resample(stitchCanvas')
            /\ pc' = "blob"
            /\ stages' = stages \o <<"stitch", "resample">>
            /\ UNCHANGED <<isMapViewLoading, mapViewError, inFlight>>
       ELSE /\ catchFinally
            /\ stages' = Append(stages, "stitch")
            /\ UNCHANGED finalCanvas

\* img.onload of request i; the last one of a running batch resolves Promise.all.
TileLoad(i) ==
    /\ i \in DOMAIN tileStatus
    /\ tileStatus[i] = "pending"
    /\ tileStatus' = [tileStatus EXCEPT ![i] = "loaded"]
    /\ IF pc = "fetch" /\ AllLoaded(tileStatus')
       THEN \E fctx \in BOOLEAN : stitchAndResample(fctx)
       ELSE UNCHANGED <<pc, isMapViewLoading, mapViewError, stitchCanvas, finalCanvas, stages,
                        inFlight>>
    /\ UNCHANGED <<capBounds, capZoom, pixelBounds, tilePromises, dispatched>>
    /\ UNCHANGED regionVars
    /\ UNCHANGED appVars

\* Mutant of TileError: a failed tile is tolerated (Promise.allSettled) and the
\* batch is stitched once nothing is pending.
TileError_Tolerated(i) ==
    /\ i \in DOMAIN tileStatus
    /\ tileStatus[i] = "pending"
    /\ tileStatus' = [tileStatus EXCEPT ![i] = "failed"]
    /\ IF pc = "fetch" /\ (\A j \in DOMAIN tileStatus : tileStatus'[j] # "pending")
       THEN stitchAndResample(TRUE)
       ELSE UNCHANGED <<pc, isMapViewLoading, mapViewError, stitchCanvas, finalCanvas, stages,
                        inFlight>>
    /\ UNCHANGED <<capBounds, capZoom, pixelBounds, tilePromises, dispatched>>
    /\ UNCHANGED regionVars
    /\ UNCHANGED appVars

\* Mutant of TileError: the first failure of a batch starts the capture over.
TileError_Restart(i) ==
    /\ i \in DOMAIN tileStatus
    /\ tileStatus[i] = "pending"
    /\ tileStatus' = [tileStatus EXCEPT ![i] = "failed"]
    /\ IF pc = "fetch"
       THEN /\ pc' = "wait"
            /\ UNCHANGED <<isMapViewLoading, mapViewError, inFlight>>
       ELSE UNCHANGED <<pc, isMapViewLoading, mapViewError, inFlight>>
    /\ UNCHANGED <<capBounds, capZoom, pixelBounds, tilePromises, stitchCanvas,
                   finalCanvas, dispatched, stages>>
    /\ UNCHANGED regionVars
    /\ UNCHANGED appVars

\* img.onerror of request i; the first one of a running batch rejects Promise.all.
TileError(i) ==
    /\ i \in DOMAIN tileStatus
    /\ tileStatus[i] = "pending"
    /\ tileStatus' = [tileStatus EXCEPT ![i] = "failed"]
    /\ IF pc = "fetch"
       THEN catchFinally
       ELSE UNCHANGED <<pc, isMapViewLoading, mapViewError, inFlight>>
    /\ UNCHANGED <<capBounds, capZoom, pixelBounds, tilePromises, stitchCanvas,
                   finalCanvas, dispatched, stages>>
    /\ UNCHANGED regionVars
    /\ UNCHANGED appVars

\* Mutant of BlobReady: the file is handed over before the blob is tested.
BlobReady_DispatchFirst(ok) ==
    /\ pc = "blob"
    /\ dispatched' = Append(dispatched, newFile(finalCanvas))
    /\ IF ok
       THEN /\ stages' = stages \o <<"blob", "dispatch">>
            /\ finallyOnly
       ELSE /\ catchFinally
            /\ stages' = stages \o <<"blob", "dispatch">>
    /\ UNCHANGED <<capBounds, capZoom, pixelBounds, tilePromises, tileStatus,
                   stitchCanvas, finalCanvas>>
    /\ UNCHANGED regionVars
    /\ UNCHANGED appVars

\* Mutant of BlobReady: a null blob ends the capture without an error.
BlobReady_NullIgnored(ok) ==
    /\ pc = "blob"
    /\ IF ok
       THEN /\ dispatched' = Append(dispatched, newFile(finalCanvas))
            /\ stages' = stages \o <<"blob", "dispatch">>
            /\ finallyOnly
       ELSE /\ finallyOnly
            /\ stages' = Append(stages, "blob")
            /\ UNCHANGED dispatched
    /\ UNCHANGED <<capBounds, capZoom, pixelBounds, tilePromises, tileStatus,
                   stitchCanvas, finalCanvas>>
    /\ UNCHANGED regionVars
    /\ UNCHANGED appVars

\* Step 7: toBlob calls back with a blob (ok) or with null.
BlobReady(ok) ==
    /\ pc = "blob"
    /\ IF ok
       THEN /\ dispatched' = Append(dispatched, newFile(finalCanvas))
            /\ stages' = stages \o <<"blob", "dispatch">>
            /\ finallyOnly
       ELSE /\ catchFinally
            /\ stages' = Append(stages, "blob")
            /\ UNCHANGED dispatched
    /\ UNCHANGED <<capBounds, capZoom, pixelBounds, tilePromises, tileStatus,
                   stitchCanvas, finalCanvas>>
    /\ UNCHANGED regionVars
    /\ UNCHANGED appVars

\* ---------------------------------------------------- analysis section
\* null of a useState<.. | null>
Null == [none |-> TRUE]

AnalyzeError == "Failed to analyze the image. Please try again."
SelectError == "Please select an image first."

\* The contents a File may have: every File object of a run has its own.
Images == 1..MaxImages

\* event.target.files[0] of the file input
uploadedFile(i) == [name |-> "upload.jpg", type |-> "image/jpeg", image |-> i]

\* The state the AnalysisSection renders from, with App's two props.
AnalysisState ==
    [mapImageForAnalysis |-> mapImageForAnalysis, startAnalysis |-> startAnalysis,
     imageFile |-> imageFile, previewImage |-> previewImage,
     analysisResult |-> analysisResult, isLoading |-> isLoading, error |-> error,
     readers |-> readers, requests |-> requests]

\* The contents referred to anywhere in a state.
ImagesInUse(a) ==
    {f.image : f \in ({a.mapImageForAnalysis, a.imageFile} \ {Null}) \cup a.readers}
    \cup {a.requests[k].imageFile.image : k \in DOMAIN a.requests}
    \cup {a.requests[k].base64Image[2] : k \in DOMAIN a.requests}
    \cup (IF a.previewImage = Null THEN {} ELSE {a.previewImage.base64[2]})
    \cup (IF a.analysisResult = Null THEN {} ELSE {a.analysisResult.segmentedImage.base64.seg[2]})

Base64(bytes) == <<"base64", bytes>>

\* reader.result after readAsDataURL(f): "data:<type>;base64,<data>", null
\* when the read failed.
readAsDataURL(f, ok) == IF ok THEN [mime |-> f.type, base64 |-> Base64(f.image)] ELSE Null

\* previewImage?.split(',')[1]
splitComma1(dataUrl) == IF dataUrl = Null THEN Null ELSE dataUrl.base64

\* onAnalysisComplete() when the closure's startAnalysis is true.
onAnalysisComplete(c, a) ==
    IF c.startAnalysis THEN [a EXCEPT !.startAnalysis = FALSE] ELSE a

\* Mutant of handleAnalysis: the request is built from the file at hand, not
\* from the preview.
handleAnalysis_FromFile(c, a, via) ==
    IF c.imageFile = Null
    THEN onAnalysisComplete(c, [a EXCEPT !.error = SelectError])
    ELSE [a EXCEPT !.isLoading = TRUE, !.error = NoError, !.analysisResult = Null,
                   !.requests = Append(@, [base64Image |-> Base64(c.imageFile.image),
                                           mimeType |-> c.imageFile.type,
                                           startAnalysis |-> c.startAnalysis,
                                           imageFile |-> c.imageFile,
                                           imageFromMap |-> c.mapImageForAnalysis,
                                           via |-> via])]

\* handleAnalysis of the render c, up to its await, acting on the state a; via
\* tells the effect's call from the button's.
handleAnalysis(c, a, via) ==
    IF c.imageFile = Null
    THEN onAnalysisComplete(c, [a EXCEPT !.error = SelectError])
    ELSE LET base64Image == splitComma1(c.previewImage)
         IN  IF base64Image = Null
             THEN onAnalysisComplete(c, [a EXCEPT !.isLoading = FALSE, !.error = AnalyzeError,
                                                  !.analysisResult = Null])
             ELSE [a EXCEPT !.isLoading = TRUE, !.error = NoError, !.analysisResult = Null,
                            !.requests = Append(@, [base64Image |-> base64Image,
                                                    mimeType |-> c.imageFile.type,
                                                    startAnalysis |-> c.startAnalysis,
                                                    imageFile |-> c.imageFile,
                                                    imageFromMap |-> c.mapImageForAnalysis,
                                                    via |-> via])]

\* useEffect(.., [imageFromMap]) of the render c
effectImageFromMap(c, a) ==
    IF c.mapImageForAnalysis # Null
    THEN [a EXCEPT !.imageFile = c.mapImageForAnalysis,
                   !.readers = @ \cup {c.mapImageForAnalysis},
                   !.analysisResult = Null, !.error = NoError]
    ELSE a

\* Mutant of effectStartAnalysis: it waits for the preview of the file at hand.
effectStartAnalysis_OwnPreview(c, a) ==
    IF /\ c.startAnalysis /\ c.imageFile # Null /\ c.previewImage # Null
       /\ c.imageFile = c.mapImageForAnalysis
       /\ c.previewImage = readAsDataURL(c.imageFile, TRUE)
    THEN handleAnalysis(c, a, "effect")
    ELSE a

\* useEffect(.., [startAnalysis, imageFile, previewImage, handleAnalysis]) of
\* the render c
effectStartAnalysis(c, a) ==
    IF c.startAnalysis /\ c.imageFile # Null /\ c.previewImage # Null
    THEN handleAnalysis(c, a, "effect")
    ELSE a

\* The renders that follow a state change: each render runs the effects whose
\* dependencies differ from the render before, in the order of declaration and
\* with the values it rendered; what they set leads to the next render.
RECURSIVE Settle(_, _)
Settle(prev, cur) ==
    LET a1 == IF cur.mapImageForAnalysis # prev.mapImageForAnalysis
              THEN effectImageFromMap(cur, cur) ELSE cur
        a2 == IF <<cur.startAnalysis, cur.imageFile, cur.previewImage>>
                 # <<prev.startAnalysis, prev.imageFile, prev.previewImage>>
              THEN effectStartAnalysis(cur, a1) ELSE a1
    IN  IF a2 = cur THEN cur ELSE Settle(cur, a2)

\* The state changes from the rendered state to a, then every render and
\* effect that follows (at most MaxRequests requests are outstanding).
Render(a) ==
    \E n \in {Settle(AnalysisState, a)} :
        /\ Len(n.requests) <= MaxRequests
        /\ mapImageForAnalysis' = n.mapImageForAnalysis
        /\ startAnalysis' = n.startAnalysis
        /\ imageFile' = n.imageFile
        /\ previewImage' = n.previewImage
        /\ analysisResult' = n.analysisResult
        /\ isLoading' = n.isLoading
        /\ error' = n.error
        /\ readers' = n.readers
        /\ requests' = n.requests

\* The calls that the effect on startAnalysis added to the calls in before.
EffectCallsAfter(before) ==
    Cardinality({k \in DOMAIN requests' : k > Len(before) /\ requests'[k].via = "effect"})

InitAnalysis ==
    /\ effectCalls = 0
    /\ mapImageForAnalysis = Null
    /\ startAnalysis = FALSE
    /\ imageFile = Null
    /\ previewImage = Null
    /\ analysisResult = Null
    /\ isLoading = FALSE
    /\ error = NoError
    /\ readers = {}
    /\ requests = <<>>

\* App.handleAnalyzeFromMap(file), the onAnalyzeFromMap of MapSection.
handleAnalyzeFromMap(file) ==
    /\ Render([AnalysisState EXCEPT !.mapImageForAnalysis = file, !.startAnalysis = TRUE])
    /\ effectCalls' = EffectCallsAfter(requests)
    /\ UNCHANGED <<regionVars, captureVars, activeLayer, iframeVars, serviceVars>>

\* A capture hands over its file, a File object of its own.
CaptureArrives ==
    \E i \in Images \ ImagesInUse(AnalysisState) : handleAnalyzeFromMap(newFile(i))

\* handleFileChange with a file chosen in the file input.
handleFileChange(file) ==
    /\ Render([AnalysisState EXCEPT !.imageFile = file, !.readers = @ \cup {file},
                                    !.analysisResult = Null, !.error = NoError])
    /\ effectCalls' = effectCalls + EffectCallsAfter(requests)
    /\ UNCHANGED <<regionVars, captureVars, activeLayer, iframeVars, serviceVars>>

\* The user chooses a file.
ChooseFile ==
    \E i \in Images \ ImagesInUse(AnalysisState) : handleFileChange(uploadedFile(i))

\* reader.onloadend of the FileReader reading f.
ReaderLoadEnd(f, ok) ==
    /\ f \in readers
    /\ Render([AnalysisState EXCEPT !.previewImage = readAsDataURL(f, ok),
                                    !.readers = @ \ {f}])
    /\ effectCalls' = effectCalls + EffectCallsAfter(requests)
    /\ UNCHANGED <<regionVars, captureVars, activeLayer, iframeVars, serviceVars>>

\* -------------------------------------------------------- geminiService
\* '' of a string variable
EmptyString == [empty |-> TRUE]

\* Texts the AI may answer with: prose without braces, braces that are not
\* JSON, and JSON documents.
Prose == [prose |-> TRUE]
Garbage == [garbage |-> TRUE]
Json(v) == [json |-> v]

\* JSON.parse
JSONparse(str) ==
    IF "json" \in DOMAIN str THEN [throws |-> FALSE, value |-> str.json] ELSE [throws |-> TRUE]

\* The keys the three contracts ask for.
PercentageKeys == {"Building", "Road", "Land", "Vegetation", "Water", "Unlabeled"}
ReportKeys == {"sustainabilityMetrics", "recommendations", "sustainabilityIndex", "analysis",
               "district", "estimatedPopulation"}
InsightKeys(topics) == {"district"} \cup topics

\* A document with the keys ks (the values do not matter to the code).
Document(ks) == [k \in ks |-> "value"]

\* text.match(/```(json)?\s*(\{[\s\S]*\})\s*```/), else text.match(/\{[\s\S]*\}/):
\* the JSON-like part of a text, '' when it has none.
matchJson(text) == IF "prose" \in DOMAIN text THEN EmptyString ELSE text

\* for (const part of response.candidates[0].content.parts) { .. }
RECURSIVE scanParts(_, _)
scanParts(parts, acc) ==
    IF parts = <<>> THEN acc
    ELSE LET part == Head(parts)
             nxt == IF "text" \in DOMAIN part
                    THEN IF matchJson(part.text) # EmptyString
                         THEN [acc EXCEPT !.jsonString = matchJson(part.text)]
                         ELSE acc
                    ELSE [acc EXCEPT !.segmentedImage = part.inlineData.data,
                                     !.segmentedImageMimeType = part.inlineData.mimeType]
         IN  scanParts(Tail(parts), nxt)

Throws == [throws |-> TRUE]

\* Mutant of analyzeImageForBiodiversity: a missing image part is let through.
analyzeImageForBiodiversity_ImageOptional(response) ==
    IF "rejected" \in DOMAIN response THEN Throws
    ELSE LET init == [jsonString |-> EmptyString, segmentedImage |-> EmptyString,
                      segmentedImageMimeType |-> "image/png"]
             acc == IF response.candidates # <<>>
                    THEN scanParts(response.candidates[1], init) ELSE init
         IN  IF acc.jsonString = EmptyString
             THEN Throws
             ELSE LET percentages == JSONparse(acc.jsonString)
                  IN  IF percentages.throws THEN Throws
                      ELSE [throws |-> FALSE,
                            value |-> [percentages |-> percentages.value,
                                       segmentedImage |->
                                           [mime |-> acc.segmentedImageMimeType,
                                            base64 |-> acc.segmentedImage]]]

\* analyzeImageForBiodiversity from the response of generateContent on
\* (a response with rejected: the call rejected).
analyzeImageForBiodiversity(response) ==
    IF "rejected" \in DOMAIN response THEN Throws
    ELSE LET init == [jsonString |-> EmptyString, segmentedImage |-> EmptyString,
                      segmentedImageMimeType |-> "image/png"]
             acc == IF response.candidates # <<>>
                    THEN scanParts(response.candidates[1], init) ELSE init
         IN  IF acc.jsonString = EmptyString \/ acc.segmentedImage = EmptyString
             THEN Throws
             ELSE LET percentages == JSONparse(acc.jsonString)
                  IN  IF percentages.throws THEN Throws
                      ELSE [throws |-> FALSE,
                            value |-> [percentages |-> percentages.value,
                                       segmentedImage |->
                                           [mime |-> acc.segmentedImageMimeType,
                                            base64 |-> acc.segmentedImage]]]

\* getSustainabilityReport and getMapInsights from the response on:
\* JSON.parse(response.text.trim()).
parseResponseText(response) ==
    IF "rejected" \in DOMAIN response THEN Throws ELSE JSONparse(response.text)

getSustainabilityReport(response) == parseResponseText(response)

getMapInsights(response) == parseResponseText(response)

\* The parts the AI may send back for the request r: texts, and the
\* segmentation of the image it was sent.
ResponseParts(r) ==
    {[text |-> t] : t \in {Prose, Garbage, Json(Document({"Building"})),
                           Json(Document(PercentageKeys))}}
    \cup {[inlineData |-> [data |-> [seg |-> r.base64Image], mimeType |-> "image/png"]]}

\* What generateContent may settle with for the request r.
ImageResponses(r) ==
    {[rejected |-> TRUE], [candidates |-> <<>>]}
    \cup {[candidates |-> <<parts>>] :
            parts \in UNION {[1..n -> ResponseParts(r)] : n \in 0..MaxParts}}

\* What generateContent may settle with when JSON with the keys ks is asked for.
TextResponses(ks) ==
    {[rejected |-> TRUE]}
    \cup {[text |-> t] : t \in {Garbage, Json(Document(ks))}
                               \cup {Json(Document(ks \ {k})) : k \in ks}}

RemoveAt(q, k) == SubSeq(q, 1, k - 1) \o SubSeq(q, k + 1, Len(q))

\* The await of analyzeImageForBiodiversity in handleAnalysis settles for
\* request k: the rest of try, catch and finally.
AnalysisResponse(k, response) ==
    /\ k \in DOMAIN requests
    /\ LET r == requests[k]
           result == analyzeImageForBiodiversity(response)
       IN  Render(onAnalysisComplete(r,
               [AnalysisState EXCEPT
                   !.requests = RemoveAt(@, k),
                   !.analysisResult = IF result.throws THEN @ ELSE result.value,
                   !.error = IF result.throws THEN AnalyzeError ELSE @,
                   !.isLoading = FALSE]))
    /\ effectCalls' = effectCalls + EffectCallsAfter(RemoveAt(requests, k))
    /\ UNCHANGED <<regionVars, captureVars, activeLayer, iframeVars, serviceVars>>

\* The 'Analyze Image with AI' button: disabled={isLoading || !imageFile}.
AnalyzeImageButtonEnabled == ~(isLoading \/ imageFile = Null)

\* The user clicks 'Analyze Image with AI'.
ClickAnalyzeImage ==
    /\ AnalyzeImageButtonEnabled
    /\ Render(handleAnalysis(AnalysisState, AnalysisState, "click"))
    /\ effectCalls' = effectCalls + EffectCallsAfter(requests)
    /\ UNCHANGED <<regionVars, captureVars, activeLayer, iframeVars, serviceVars>>

\* ------------------------------------------------- sustainability report
ReportError == "Failed to get sustainability recommendations. Please try again."

reportVars == <<sustainabilityReport, isReportLoading, reportError, reportRequests>>
insightsVars == <<insights, isInsightsLoading, insightsError, insightsRequests,
                  selectedTopics, customTopic>>

\* App.handleSustainabilityAnalysis(data), up to its first await: the read of
\* data.imageFile when there is one, else the call of getSustainabilityReport.
handleSustainabilityAnalysis(data) ==
    /\ isReportLoading' = TRUE
    /\ reportError' = NoError
    /\ sustainabilityReport' = Null
    /\ reportRequests' = Append(reportRequests,
            [stage |-> IF "imageFile" \in DOMAIN data THEN "read" ELSE "call"])

\* onAnalyzeFromImage(file) of SustainabilitySection ('Generate from Image').
onAnalyzeFromImage(file) ==
    /\ Len(reportRequests) < MaxReportRequests
    /\ handleSustainabilityAnalysis([imageFile |-> file])
    /\ UNCHANGED <<regionVars, captureVars, activeLayer, iframeVars, analysisVars, insightsVars>>

\* reader.onload or reader.onerror of the read of data.imageFile.
ReportFileRead(k, ok) ==
    /\ k \in DOMAIN reportRequests
    /\ reportRequests[k].stage = "read"
    /\ IF ok
       THEN /\ reportRequests' = [reportRequests EXCEPT ![k].stage = "call"]
            /\ UNCHANGED <<sustainabilityReport, isReportLoading, reportError>>
       ELSE /\ reportRequests' = RemoveAt(reportRequests, k)
            /\ reportError' = ReportError
            /\ isReportLoading' = FALSE
            /\ UNCHANGED sustainabilityReport
    /\ UNCHANGED <<regionVars, captureVars, activeLayer, iframeVars, analysisVars, insightsVars>>

\* The await of getSustainabilityReport settles: rest of try, catch, finally.
ReportResponse(k, response) ==
    /\ k \in DOMAIN reportRequests
    /\ reportRequests[k].stage = "call"
    /\ LET result == getSustainabilityReport(response)
       IN  /\ sustainabilityReport' = IF result.throws THEN sustainabilityReport ELSE result.value
           /\ reportError' = IF result.throws THEN ReportError ELSE reportError
    /\ isReportLoading' = FALSE
    /\ reportRequests' = RemoveAt(reportRequests, k)
    /\ UNCHANGED <<regionVars, captureVars, activeLayer, iframeVars, analysisVars, insightsVars>>

\* The 'Get Recommendations' button of the Region Selector:
\* disabled={!analysisBounds}; it does not look at isReportLoading.
GetRecsButtonEnabled == analysisBounds # NoBounds

\* handleGetRecsClick, from its first line to the await of the 500 ms timer;
\* the waiting call is kept in reportRequests at the stage "wait".
handleGetRecsClick ==
    IF ~(mapInstance /\ analysisBounds # NoBounds)
    THEN UNCHANGED <<regionVars, reportVars>>
    ELSE /\ \E z \in Zooms : fitBounds(analysisBounds, z)
         /\ reportRequests' = Append(reportRequests, [stage |-> "wait"])
         /\ UNCHANGED <<radius, mapInstance, analysisBounds, landCoverData, mapRef,
                        listeners, fx, fxMi>>
         /\ UNCHANGED <<sustainabilityReport, isReportLoading, reportError>>

\* The user clicks 'Get Recommendations'.
ClickGetRecs ==
    /\ GetRecsButtonEnabled
    /\ Len(reportRequests) < MaxReportRequests
    /\ handleGetRecsClick
    /\ UNCHANGED <<captureVars, activeLayer, iframeVars, analysisVars, insightsVars>>

\* The timer of handleGetRecsClick fires: onGetRecommendations({bounds,
\* landCover}), that is App.handleGetRecommendationsFromMap, which runs
\* handleSustainabilityAnalysis without an image up to the await of
\* getSustainabilityReport.
handleGetRecommendationsFromMap(k) ==
    /\ k \in DOMAIN reportRequests
    /\ reportRequests[k].stage = "wait"
    /\ isReportLoading' = TRUE
    /\ reportError' = NoError
    /\ sustainabilityReport' = Null
    /\ reportRequests' = [reportRequests EXCEPT ![k].stage = "call"]
    /\ UNCHANGED <<regionVars, captureVars, activeLayer, iframeVars, analysisVars, insightsVars>>

\* ------------------------------------------------------- map insights
InsightsError == "Failed to get insights. Please try again."
TopicError == "Please select at least one topic."

\* The topics and custom topics modelled; one custom topic is blank.
INSIGHT_CATEGORIES == {"safety"}
CustomTopics == {"", " ", "parks"}

\* customTopic.trim()
trim(str) == IF str = " " THEN "" ELSE str

\* handleTopicChange(topicId)
handleTopicChange(topicId) ==
    /\ selectedTopics' = IF topicId \in selectedTopics THEN selectedTopics \ {topicId}
                                                      ELSE selectedTopics \cup {topicId}
    /\ UNCHANGED <<insights, isInsightsLoading, insightsError, insightsRequests, customTopic>>
    /\ UNCHANGED <<regionVars, captureVars, activeLayer, iframeVars, analysisVars, reportVars>>

\* onChange of the custom topic input: setCustomTopic(e.target.value)
setCustomTopic(str) ==
    /\ str # customTopic
    /\ customTopic' = str
    /\ UNCHANGED <<insights, isInsightsLoading, insightsError, insightsRequests, selectedTopics>>
    /\ UNCHANGED <<regionVars, captureVars, activeLayer, iframeVars, analysisVars, reportVars>>

\* Mutant of GetInsightsButtonEnabled: the button stays enabled while loading.
GetInsightsButtonEnabled_IgnoresLoading ==
    ~(selectedTopics = {} /\ trim(customTopic) = "")

\* The 'Get Insights' button:
\* disabled={isInsightsLoading || (selectedTopics.length === 0 && !customTopic.trim())}
GetInsightsButtonEnabled ==
    ~(isInsightsLoading \/ (selectedTopics = {} /\ trim(customTopic) = ""))

\* handleGetInsights up to its await.
handleGetInsights ==
    LET trimmedCustomTopic == trim(customTopic)
        allTopics == selectedTopics \cup (IF trimmedCustomTopic # "" THEN {trimmedCustomTopic} ELSE {})
    IN  IF ~mapInstance \/ allTopics = {}
        THEN /\ insightsError' = TopicError
             /\ UNCHANGED <<insights, isInsightsLoading, insightsRequests>>
        ELSE /\ isInsightsLoading' = TRUE
             /\ insightsError' = NoError
             /\ insights' = Null
             /\ insightsRequests' = Append(insightsRequests, [topics |-> allTopics])

\* The user clicks 'Get Insights'.
ClickGetInsights ==
    /\ GetInsightsButtonEnabled
    /\ handleGetInsights
    /\ UNCHANGED <<selectedTopics, customTopic>>
    /\ UNCHANGED <<regionVars, captureVars, activeLayer, iframeVars, analysisVars, reportVars>>

\* The await of getMapInsights settles: rest of try, catch, finally.
InsightsResponse(k, response) ==
    /\ k \in DOMAIN insightsRequests
    /\ LET result == getMapInsights(response)
       IN  /\ insights' = IF result.throws THEN insights ELSE result.value
           /\ insightsError' = IF result.throws THEN InsightsError ELSE insightsError
    /\ isInsightsLoading' = FALSE
    /\ insightsRequests' = RemoveAt(insightsRequests, k)
    /\ UNCHANGED <<selectedTopics, customTopic>>
    /\ UNCHANGED <<regionVars, captureVars, activeLayer, iframeVars, analysisVars, reportVars>>

InitService ==
    /\ sustainabilityReport = Null
    /\ isReportLoading = FALSE
    /\ reportError = NoError
    /\ reportRequests = <<>>
    /\ insights = Null
    /\ isInsightsLoading = FALSE
    /\ insightsError = NoError
    /\ insightsRequests = <<>>
    /\ selectedTopics = {}
    /\ customTopic = ""

\* onChange of a layer radio button: setActiveLayer(layer)
setActiveLayer(layer) ==
    /\ layer # activeLayer
    /\ activeLayer' = layer
    /\ UNCHANGED <<regionVars, captureVars, iframeVars, analysisVars, serviceVars>>

\* ------------------------------------------------------ LocalMapIframe
\* ENVIRONMENTAL_RISK_MAPS: the urls of the 'Risk Layers' buttons.
ENVIRONMENTAL_RISK_MAPS ==
    <<"/vegetation_risk_map.html", "/water_bodies_risk_map-1.html",
      "/biodiversity_risk_map-1.html">>

MapLoadError ==
    "Could not load the map data. Please ensure the file exists and the server is running."

\* The text served at the url u.
Html(u) == [html |-> u]

\* fetchHtml() of the effect on [url], up to the await of fetch(url).
fetchHtml(u) ==
    /\ iframeIsLoading' = TRUE
    /\ iframeError' = NoError
    /\ htmlContent' = EmptyString
    /\ fetches' = Append(fetches, [url |-> u, stage |-> "fetch"])

\* A 'Risk Layers' button: setActiveRiskMap(map.url); the url prop changes and
\* the effect on [url] runs fetchHtml.
setActiveRiskMap(u) ==
    /\ u # url
    /\ Len(fetches) < MaxFetches
    /\ url' = u
    /\ fetchHtml(u)
    /\ UNCHANGED <<regionVars, captureVars, activeLayer, analysisVars, serviceVars>>

\* catch { setError(..) } finally { setIsLoading(false) } of fetchHtml k
fetchFailed(k) ==
    /\ iframeError' = MapLoadError
    /\ iframeIsLoading' = FALSE
    /\ fetches' = RemoveAt(fetches, k)
    /\ UNCHANGED htmlContent

\* await fetch(url) of fetchHtml k settles: ok tells a response with
\* response.ok from a rejection or a response that is not ok.
FetchSettles(k, ok) ==
    /\ k \in DOMAIN fetches
    /\ fetches[k].stage = "fetch"
    /\ IF ok
       THEN /\ fetches' = [fetches EXCEPT ![k].stage = "text"]
            /\ UNCHANGED <<htmlContent, iframeIsLoading, iframeError>>
       ELSE fetchFailed(k)
    /\ UNCHANGED url
    /\ UNCHANGED <<regionVars, captureVars, activeLayer, analysisVars, serviceVars>>

\* await response.text() of fetchHtml k settles: the rest of try, catch and
\* finally.
TextSettles(k, ok) ==
    /\ k \in DOMAIN fetches
    /\ fetches[k].stage = "text"
    /\ IF ok
       THEN /\ htmlContent' = Html(fetches[k].url)
            /\ iframeIsLoading' = FALSE
            /\ fetches' = RemoveAt(fetches, k)
            /\ UNCHANGED iframeError
       ELSE fetchFailed(k)
    /\ UNCHANGED url
    /\ UNCHANGED <<regionVars, captureVars, activeLayer, analysisVars, serviceVars>>

\* LocalMapIframe after its mount: the state of useState and the first run of
\* the effect, the fetch of the first url under way.
InitIframe ==
    /\ url = ENVIRONMENTAL_RISK_MAPS[1]
    /\ htmlContent = EmptyString
    /\ iframeIsLoading = TRUE
    /\ iframeError = NoError
    /\ fetches = <<[url |-> url, stage |-> "fetch"]>>

NextIframe ==
    \/ \E i \in DOMAIN ENVIRONMENTAL_RISK_MAPS : setActiveRiskMap(ENVIRONMENTAL_RISK_MAPS[i])
    \/ \E k \in DOMAIN fetches, ok \in BOOLEAN : FetchSettles(k, ok)
    \/ \E k \in DOMAIN fetches, ok \in BOOLEAN : TextSettles(k, ok)

InitApp == InitAnalysis /\ InitService /\ InitIframe /\ activeLayer = MAP_LAYERS[1]

NextCapture ==
    \/ ClickAnalyze
    \/ AfterWait
    \/ \E i \in DOMAIN tileStatus : TileLoad(i)
    \/ \E i \in DOMAIN tileStatus : TileError(i)
    \/ \E ok \in BOOLEAN : BlobReady(ok)

Init == InitRegion /\ InitCapture /\ InitApp

NextRegion ==
    \/ MapCreated
    \/ \E r \in Radii : SetRadius(r)
    \/ MapComponentEffect
    \/ MapSectionEffect
    \/ \E c \in Centers : MapMove(c)
    \/ \E z \in Zooms : MapZoom(z)
    \/ \E e \in {"moveend", "zoomend"} : FireEvent(e)

Next == NextRegion \/ NextCapture

Spec == Init /\ [][Next]_vars

\* ------------------------------------------- the pipeline on drawn boxes
\* The rectangles the projection may return: corners on the lattice.
BoxCoords == {SubTile * k : k \in (0 - 1)..MaxBoxCoord}
PixelBoxes ==
    {[min |-> [x |-> x1, y |-> y1], max |-> [x |-> x2, y |-> y2]] :
        <<x1, x2>> \in {e \in BoxCoords \X BoxCoords : e[1] <= e[2]},
        <<y1, y2>> \in {e \in BoxCoords \X BoxCoords : e[1] <= e[2]}}

\* A capture suspended at its timer: the map was registered, the radius set
\* to one step, 'Analyze Map Area' clicked and the move delivered.
InitTiles ==
    /\ radius = RadiusStep
    /\ mapInstance = TRUE
    /\ center = [x |-> 2, y |-> MaxCenterY]
    /\ analysisBounds = toBounds(center, radius * 2)
    /\ landCoverData = CHOOSE d \in calculateLandPercentages : TRUE
    /\ zoom = INITIAL_ZOOM
    /\ mapRef = TRUE
    /\ listeners = <<[mi |-> FALSE, r |-> 0], [mi |-> TRUE, r |-> 0],
                     [mi |-> TRUE, r |-> RadiusStep]>>
    /\ pendingEvents = {}
    /\ fx = "none"
    /\ fxMi = TRUE
    /\ pc = "wait"
    /\ isMapViewLoading = TRUE
    /\ mapViewError = NoError
    /\ capBounds = analysisBounds
    /\ capZoom = 0
    /\ pixelBounds = NoBounds
    /\ tilePromises = <<>>
    /\ tileStatus = <<>>
    /\ stitchCanvas = NoBounds
    /\ finalCanvas = NoBounds
    /\ dispatched = <<>>
    /\ stages = <<"fit", "wait">>
    /\ inFlight = 1
    /\ InitApp

\* AfterWait with the rectangle pb as the result of L.bounds(project, project).
ProjectTo(pb) ==
    /\ pc = "wait"
    /\ capZoom' = zoom
    /\ \E ctx \in BOOLEAN : requestTiles(pb, ctx)
    /\ UNCHANGED <<capBounds, finalCanvas, dispatched>>
    /\ UNCHANGED regionVars
    /\ UNCHANGED appVars

\* Every request of the batch loads: Promise.all resolves.
TilesResolved ==
    /\ pc = "fetch"
    /\ tileStatus' = [i \in DOMAIN tileStatus |-> "loaded"]
    /\ \E fctx \in BOOLEAN : stitchAndResample(fctx)
    /\ UNCHANGED <<capBounds, capZoom, pixelBounds, tilePromises, dispatched>>
    /\ UNCHANGED regionVars
    /\ UNCHANGED appVars

NextTiles ==
    \/ \E pb \in PixelBoxes : ProjectTo(pb)
    \/ TilesResolved
    \/ \E ok \in BOOLEAN : BlobReady(ok)

SpecTiles == InitTiles /\ [][NextTiles]_vars

\* ------------------------- captures on drawn boxes, request by request
\* The rectangles of at most 2 x 2 tiles the projection may return.
FetchCoords == {SubTile * k : k \in 0..MaxFetchCoord}
FetchBoxes ==
    {[min |-> [x |-> x1, y |-> y1], max |-> [x |-> x2, y |-> y2]] :
        <<x1, x2>> \in {e \in FetchCoords \X FetchCoords : e[1] <= e[2]},
        <<y1, y2>> \in {e \in FetchCoords \X FetchCoords : e[1] <= e[2]}}

\* A step of a running capture: the timer fires, a tile request loads or
\* errors, toBlob calls back.
CaptureStep ==
    \/ \E pb \in FetchBoxes : ProjectTo(pb)
    \/ \E i \in DOMAIN tileStatus : TileLoad(i) \/ TileError(i)
    \/ \E ok \in BOOLEAN : BlobReady(ok)

NextFetch == ClickAnalyze \/ CaptureStep

\* Captures one after the other, each from the click to its end; the event
\* loop delivers what a running capture waits for.
FairFetch == InitTiles /\ [][NextFetch]_vars /\ WF_vars(CaptureStep)

\* -------------------------------------------- App and the AI panels
\* The page after mount: the map created and registered, nothing selected.
InitReady ==
    /\ radius = 0
    /\ mapInstance = TRUE
    /\ analysisBounds = NoBounds
    /\ landCoverData = CHOOSE d \in calculateLandPercentages : TRUE
    /\ center = [x |-> 2, y |-> MaxCenterY]
    /\ zoom = INITIAL_ZOOM
    /\ mapRef = TRUE
    /\ listeners = <<[mi |-> FALSE, r |-> 0], [mi |-> TRUE, r |-> 0]>>
    /\ pendingEvents = {}
    /\ fx = "none"
    /\ fxMi = TRUE
    /\ InitCapture
    /\ InitApp

\* The Analysis section: files chosen, captures arriving, reads and requests
\* settling.
NextAnalysis ==
    \/ CaptureArrives
    \/ ChooseFile
    \/ \E f \in readers, ok \in BOOLEAN : ReaderLoadEnd(f, ok)
    \/ ClickAnalyzeImage
    \/ \E k \in DOMAIN requests : \E response \in ImageResponses(requests[k]) :
          AnalysisResponse(k, response)

SpecAnalysis == InitReady /\ [][NextAnalysis]_vars

\* LocalMapIframe alone: the layer buttons and the fetches settling.
SpecIframe == InitReady /\ [][NextIframe]_vars

\* The steps of a running capture: the timer, the image events and the toBlob
\* callback.
CaptureRun ==
    /\ pc # "idle"
    /\ \/ AfterWait
       \/ \E i \in DOMAIN tileStatus : TileLoad(i)
       \/ \E i \in DOMAIN tileStatus : TileError(i)
       \/ \E ok \in BOOLEAN : BlobReady(ok)

\* The user's events and their effects are followed while the capture runs.
NextInFlight ==
    \/ pc # "idle" /\ \E r \in Radii : SetRadius(r)
    \/ pc # "idle" /\ MapComponentEffect
    \/ pc # "idle" /\ MapSectionEffect
    \/ pc # "idle" /\ \E c \in Centers : MapMove(c)
    \/ pc # "idle" /\ \E z \in Zooms : MapZoom(z)
    \/ pc # "idle" /\ \E e \in {"moveend", "zoomend"} : FireEvent(e)
    \/ CaptureRun

\* One capture followed until it ends, while the user moves and zooms the map
\* and changes the radius; the steps of the capture are eventually delivered.
FairInFlight == InitTiles /\ [][NextInFlight]_vars /\ WF_vars(CaptureRun)

\* A capture under way while the user changes layer and zoom.
NextLayers ==
    \/ \E i \in DOMAIN MAP_LAYERS : setActiveLayer(MAP_LAYERS[i])
    \/ \E z \in Zooms : MapZoom(z)
    \/ ClickAnalyze
    \/ CaptureStep

SpecLayers == InitTiles /\ [][NextLayers]_vars

\* The three AI contracts side by side: the segmentation of a chosen file, the
\* sustainability report of a chosen file and the map insights.
NextContracts ==
    \/ ChooseFile
    \/ \E f \in readers, ok \in BOOLEAN : ReaderLoadEnd(f, ok)
    \/ ClickAnalyzeImage
    \/ \E k \in DOMAIN requests : \E response \in ImageResponses(requests[k]) :
          AnalysisResponse(k, response)
    \/ \E i \in Images : onAnalyzeFromImage(uploadedFile(i))
    \/ \E k \in DOMAIN reportRequests, ok \in BOOLEAN : ReportFileRead(k, ok)
    \/ \E k \in DOMAIN reportRequests : \E response \in TextResponses(ReportKeys) :
          ReportResponse(k, response)
    \/ \E topicId \in INSIGHT_CATEGORIES : handleTopicChange(topicId)
    \/ \E str \in CustomTopics : setCustomTopic(str)
    \/ ClickGetInsights
    \/ \E k \in DOMAIN insightsRequests :
          \E response \in TextResponses(InsightKeys(insightsRequests[k].topics)) :
              InsightsResponse(k, response)

SpecContracts == InitReady /\ [][NextContracts]_vars

\* The Map Insights panel from the mount of the page on: topics chosen, the
\* button clicked while it is enabled, the requests settling.
NextInsights ==
    \/ MapCreated
    \/ MapComponentEffect
    \/ MapSectionEffect
    \/ \E topicId \in INSIGHT_CATEGORIES : handleTopicChange(topicId)
    \/ \E str \in CustomTopics : setCustomTopic(str)
    \/ ClickGetInsights
    \/ \E k \in DOMAIN insightsRequests :
          \E response \in TextResponses(InsightKeys(insightsRequests[k].topics)) :
              InsightsResponse(k, response)

SpecInsights == Init /\ [][NextInsights]_vars

\* A region is selected and no capture runs: the map was registered and the
\* radius set to one step.
InitSelected ==
    /\ radius = RadiusStep
    /\ mapInstance = TRUE
    /\ center = [x |-> 2, y |-> MaxCenterY]
    /\ analysisBounds = toBounds(center, radius * 2)
    /\ landCoverData = CHOOSE d \in calculateLandPercentages : TRUE
    /\ zoom = INITIAL_ZOOM
    /\ mapRef = TRUE
    /\ listeners = <<[mi |-> FALSE, r |-> 0], [mi |-> TRUE, r |-> 0],
                     [mi |-> TRUE, r |-> RadiusStep]>>
    /\ pendingEvents = {}
    /\ fx = "none"
    /\ fxMi = TRUE
    /\ InitCapture
    /\ InitApp

\* The sustainability report asked for from the map and from an image, the
\* requests settling in any order.
NextReports ==
    \/ ClickGetRecs
    \/ \E k \in DOMAIN reportRequests : handleGetRecommendationsFromMap(k)
    \/ \E e \in {"moveend", "zoomend"} : FireEvent(e)
    \/ \E i \in Images : onAnalyzeFromImage(uploadedFile(i))
    \/ \E k \in DOMAIN reportRequests, ok \in BOOLEAN : ReportFileRead(k, ok)
    \/ \E k \in DOMAIN reportRequests : \E response \in TextResponses(ReportKeys) :
          ReportResponse(k, response)

SpecReports == InitSelected /\ [][NextReports]_vars

\* ------------------------------------------------------------- claims
\* No listener or effect is waiting to run.
Quiescent == fx = "none" /\ pendingEvents = {}

Range(f) == {f[i] : i \in DOMAIN f}

IsPrefix(a, b) == Len(a) <= Len(b) /\ a = SubSeq(b, 1, Len(a))

\* The stages of a capture that succeeds.
SuccessStages == <<"fit", "wait", "project", "fetch", "stitch", "resample", "blob", "dispatch">>

NothingDrawn(cv) == cv = NoBounds \/ \A p \in DOMAIN cv.px : cv.px[p] = <<"blank">>

Degenerate(pb) == pb # NoBounds /\ (getSize(pb).x = 0 \/ getSize(pb).y = 0)

\* The stitching canvas as the handler creates it for pb.
BlankCanvas(pb) == createCanvas(getSize(pb).x, getSize(pb).y)

\* C1: every capture that set isMapViewLoading to true eventually sets it back
\* to false, whichever way the capture ends (FairFetch: the timer fires, every
\* tile request loads or errors, toBlob calls back).
C1_LoadingReleased == isMapViewLoading ~> ~isMapViewLoading

\* A capture ended by a failed tile request, with the flag cleared.
C1_Witness ==
    /\ pc = "idle"
    /\ ~isMapViewLoading
    /\ stages = <<"fit", "wait", "project", "fetch">>
    /\ \E i \in DOMAIN tileStatus : tileStatus[i] = "failed"

\* C2: when a tile request of a capture has failed, nothing is drawn on the
\* stitching canvas, no final canvas exists, no file is handed to
\* onAnalyzeFromMap and the capture has ended with mapViewError set, whatever
\* the order in which the requests complete.
C2_AllOrNothing ==
    (\E i \in DOMAIN tileStatus : tileStatus[i] = "failed") =>
        /\ NothingDrawn(stitchCanvas)
        /\ finalCanvas = NoBounds
        /\ dispatched = <<>>
        /\ pc = "idle"
        /\ mapViewError = CaptureError

\* One request of at least two failed and all the others loaded.
C2_Witness ==
    /\ Len(tileStatus) >= 2
    /\ Cardinality({i \in DOMAIN tileStatus : tileStatus[i] = "failed"}) = 1
    /\ Cardinality({i \in DOMAIN tileStatus : tileStatus[i] = "loaded"}) = Len(tileStatus) - 1

\* C3: a capture hands at most one file to onAnalyzeFromMap, and only after the
\* projection, every tile request, the stitching, the resampling and the blob
\* encoding succeeded; a capture that failed has handed over nothing.
C3_NoPartialArtifact ==
    /\ Len(dispatched) <= 1
    /\ dispatched # <<>> =>
          /\ stages = SuccessStages
          /\ tilePromises # <<>>
          /\ AllLoaded(tileStatus)
          /\ stitchCanvas = stitch(BlankCanvas(pixelBounds), tilePromises, pixelBounds)
          /\ finalCanvas = resample(stitchCanvas)
          /\ dispatched[1] = newFile(finalCanvas)
          /\ mapViewError = NoError
    /\ mapViewError = CaptureError => dispatched = <<>>

\* A capture that handed its file over.
C3_Witness == pc = "idle" /\ Len(dispatched) = 1 /\ Len(tilePromises) >= 2

\* The pixels of the rectangle pb (on the lattice) and the tiles holding them.
RectPixels(pb) ==
    {pb.min.x + SubTile * k : k \in 0..((getSize(pb).x \div SubTile) - 1)}
    \X {pb.min.y + SubTile * k : k \in 0..((getSize(pb).y \div SubTile) - 1)}

TileContains(t, p) ==
    /\ t.x * tileSize <= p[1] /\ p[1] < (t.x + 1) * tileSize
    /\ t.y * tileSize <= p[2] /\ p[2] < (t.y + 1) * tileSize

\* C4: for pixel bounds of positive width and height, every pixel of the
\* rectangle lies in exactly one requested tile (so the tile holding it is
\* requested, and requested once).
C4_TileCoverage ==
    tilePromises # <<>> =>
        \A p \in RectPixels(pixelBounds) :
            Cardinality({i \in DOMAIN tilePromises : TileContains(tilePromises[i], p)}) = 1

\* A rectangle that starts inside a tile and spans three columns and rows.
C4_Witness ==
    /\ pc = "fetch"
    /\ Len(tilePromises) = 9
    /\ pixelBounds.min.x % tileSize # 0
    /\ pixelBounds.min.y % tileSize # 0

Is512(pb) == pb # NoBounds /\ getSize(pb) = [x |-> 2 * tileSize, y |-> 2 * tileSize]

\* C5 as stated: pixel bounds of 512 x 512 give exactly 4 tile requests (2 x 2)
\* and a stitching canvas of 512 x 512.
C5_Original ==
    (pc = "fetch" /\ Is512(pixelBounds)) =>
        /\ Len(tilePromises) = 4
        /\ stitchCanvas.width = 2 * tileSize /\ stitchCanvas.height = 2 * tileSize

\* C5 amended: pixel bounds of 512 x 512 give exactly 9 tile requests, the
\* 3 x 3 grid from floor(min / 256) to floor(max / 256) inclusive, and a
\* stitching canvas of 512 x 512.
C5_NineTiles ==
    (pc = "fetch" /\ Is512(pixelBounds)) =>
        /\ Len(tilePromises) = 9
        /\ Range(tilePromises) =
              {[x |-> (pixelBounds.min.x \div tileSize) + dx,
                y |-> (pixelBounds.min.y \div tileSize) + dy] : dx \in 0..2, dy \in 0..2}
        /\ stitchCanvas.width = 2 * tileSize /\ stitchCanvas.height = 2 * tileSize

\* A 512 x 512 rectangle aligned with the tile grid, its requests issued.
C5_Witness ==
    /\ pc = "fetch"
    /\ Is512(pixelBounds)
    /\ pixelBounds.min = [x |-> 0, y |-> 0]

\* C6: pixel bounds of width 0 or height 0 end the capture before any tile
\* request: none is issued, nothing is handed over and mapViewError is set.
C6_DegenerateRegion ==
    Degenerate(pixelBounds) =>
        /\ tilePromises = <<>>
        /\ tileStatus = <<>>
        /\ dispatched = <<>>
        /\ pc = "idle"
        /\ mapViewError = CaptureError

\* A capture whose projected corners were equal.
C6_Witness ==
    /\ pixelBounds # NoBounds
    /\ pixelBounds.min = pixelBounds.max
    /\ pc = "idle"

\* C7: once the tiles are stitched, the stitching canvas equals the canvas
\* obtained by drawing the same tiles in any other order (up to MaxPermTiles
\* tiles), in every state reached by any order of completion of the requests.
C7_StitchDeterminism ==
    ("stitch" \in Range(stages) /\ Len(tilePromises) <= MaxPermTiles) =>
        \A f \in Permutations(DOMAIN tilePromises) :
            stitch(BlankCanvas(pixelBounds),
                   [i \in DOMAIN tilePromises |-> tilePromises[f[i]]],
                   pixelBounds) = stitchCanvas

\* Four tiles stitched.
C7_Witness == "stitch" \in Range(stages) /\ Len(tilePromises) = 4

\* C8: the stages of a capture run in the order fit-bounds, wait, project,
\* fetch, stitch, resample, blob, dispatch: while the handler waits it has read
\* neither zoom nor pixel bounds and issued no request; what it reads when the
\* wait ends is the zoom of that moment; a tile is drawn only when every
\* request has loaded; the final canvas is drawn from the canvas with all the
\* tiles drawn; a file is handed over only with the final canvas it encodes.
C8_StageOrderState ==
    /\ IsPrefix(stages, SuccessStages)
    /\ pc = "wait" =>
          /\ capZoom = 0
          /\ pixelBounds = NoBounds
          /\ tilePromises = <<>>
          /\ stitchCanvas = NoBounds
    /\ ~NothingDrawn(stitchCanvas) => AllLoaded(tileStatus)
    /\ finalCanvas # NoBounds =>
          /\ stitchCanvas = stitch(BlankCanvas(pixelBounds), tilePromises, pixelBounds)
          /\ finalCanvas = resample(stitchCanvas)
    /\ dispatched # <<>> =>
          /\ finalCanvas # NoBounds
          /\ dispatched[1].image = finalCanvas

C8_StageOrder ==
    /\ []C8_StageOrderState
    /\ [][(pc = "wait" /\ pc' # "wait") =>
            /\ capZoom' = zoom
            /\ pixelBounds' = LBounds(project(getNorthWest(capBounds), zoom),
                                       project(getSouthEast(capBounds), zoom))]_vars

\* A capture that ran every stage at the zoom the map had when the wait ended.
C8_Witness == stages = SuccessStages /\ capZoom = INITIAL_ZOOM + 1

\* C9: with the radius at 0 and nothing waiting to run, analysisBounds is null,
\* the 'Analyze Map Area' button is disabled and handleAnalyzeMapView returns
\* at its guard.
C9_ZeroRadiusUnavailable ==
    (radius = 0 /\ Quiescent) =>
        /\ analysisBounds = NoBounds
        /\ ~AnalyzeButtonEnabled
        /\ ~PassesGuard

\* The radius back at 0 on a registered map on which a listener of the
\* earlier radius is still registered.
C9_Witness ==
    /\ radius = 0
    /\ Quiescent
    /\ mapInstance
    /\ \E i \in DOMAIN listeners : listeners[i].mi /\ listeners[i].r > 0

\* C10: on a registered map with nothing waiting to run, analysisBounds is the
\* box around the map's current centre for the current radius, null for 0.
C10_BoundsCurrent ==
    (mapInstance /\ Quiescent) =>
        analysisBounds = IF radius > 0 THEN toBounds(center, radius * 2) ELSE NoBounds

\* A positive radius, the map moved, a listener of another radius registered.
C10_Witness ==
    /\ mapInstance
    /\ Quiescent
    /\ radius > 0
    /\ center.y # MaxCenterY
    /\ \E i \in DOMAIN listeners : listeners[i].mi /\ listeners[i].r # radius

\* C11: at most one invocation of handleAnalyzeMapView is past its guard and
\* before the end of its finally block; while one is, isMapViewLoading is true
\* and the 'Analyze Map Area' button is disabled; an invocation starts only
\* when none is in flight.
C11_SingleCapture ==
    /\ [](/\ inFlight \in {0, 1}
          /\ inFlight = 1 => (isMapViewLoading /\ ~AnalyzeButtonEnabled)
          /\ inFlight = 1 <=> pc # "idle")
    /\ [][inFlight' > inFlight => inFlight = 0]_vars

\* A capture waiting for its tiles, one loaded, on a map whose region is
\* selected and with no event left to deliver: only the flag holds the button.
C11_Witness ==
    /\ inFlight = 1
    /\ pc = "fetch"
    /\ \E i \in DOMAIN tileStatus : tileStatus[i] = "loaded"
    /\ analysisBounds # NoBounds
    /\ Quiescent

\* C12: a segmentation request that the Analysis section issues in the render
\* that receives a capture from handleAnalyzeFromMap carries the bytes of that
\* captured file (not those of the image the section held before).
C12_CaptureBytes ==
    [][mapImageForAnalysis' # mapImageForAnalysis =>
          \A k \in DOMAIN requests' :
              k > Len(requests) =>
                  requests'[k].base64Image = Base64(mapImageForAnalysis'.image)]_vars

\* The parts of an AI response (none when it has no candidate or was rejected).
PartsOf(response) ==
    IF "candidates" \in DOMAIN response /\ response.candidates # <<>>
    THEN Range(response.candidates[1]) ELSE {}

HasParseableJson(response) ==
    \E part \in PartsOf(response) : "text" \in DOMAIN part /\ "json" \in DOMAIN part.text

HasImagePart(response) == \E part \in PartsOf(response) : "inlineData" \in DOMAIN part

\* C13: for an AI response without parseable percentage JSON or without a
\* segmented image part, analyzeImageForBiodiversity throws, and the run of
\* handleAnalysis that awaited it ends with error set, analysisResult null and
\* isLoading false.
C13_IncompleteResponseFails ==
    [][\A k \in DOMAIN requests : \A response \in ImageResponses(requests[k]) :
          (~HasParseableJson(response) \/ ~HasImagePart(response)) =>
              /\ analyzeImageForBiodiversity(response).throws
              /\ AnalysisResponse(k, response) =>
                    /\ error' = AnalyzeError
                    /\ analysisResult' = Null
                    /\ isLoading' = FALSE]_vars

\* A segmentation response with an image part whose JSON texts all lack one of
\* the percentage keys.
SegmentationPartial(response) ==
    /\ HasImagePart(response)
    /\ HasParseableJson(response)
    /\ \A part \in PartsOf(response) :
          "text" \in DOMAIN part =>
              /\ "json" \in DOMAIN part.text
              /\ ~(PercentageKeys \subseteq DOMAIN part.text.json)

\* A JSON text response that lacks one of the keys ks.
TextPartial(response, ks) ==
    /\ "text" \in DOMAIN response
    /\ "json" \in DOMAIN response.text
    /\ ~(ks \subseteq DOMAIN response.text.json)

\* C14: for each of the three AI contracts a response that parses as JSON but
\* lacks a required field is a total failure: the service call rejects, the
\* error state of the contract is set and no result is stored from the response.
C14_PartialResponseRejected ==
    [][/\ \A k \in DOMAIN requests : \A response \in ImageResponses(requests[k]) :
             (SegmentationPartial(response) /\ AnalysisResponse(k, response)) =>
                 /\ analyzeImageForBiodiversity(response).throws
                 /\ error' = AnalyzeError
                 /\ analysisResult' = analysisResult
       /\ \A k \in DOMAIN reportRequests : \A response \in TextResponses(ReportKeys) :
             (TextPartial(response, ReportKeys) /\ ReportResponse(k, response)) =>
                 /\ getSustainabilityReport(response).throws
                 /\ reportError' = ReportError
                 /\ sustainabilityReport' = sustainabilityReport
       /\ \A k \in DOMAIN insightsRequests :
             \A response \in TextResponses(InsightKeys(insightsRequests[k].topics)) :
                 (TextPartial(response, InsightKeys(insightsRequests[k].topics))
                     /\ InsightsResponse(k, response)) =>
                     /\ getMapInsights(response).throws
                     /\ insightsError' = InsightsError
                     /\ insights' = insights]_vars

\* C15: a capture whose toBlob callback received null has not called
\* onAnalyzeFromMap, has set mapViewError and has cleared isMapViewLoading.
C15_NullBlob ==
    (pc = "idle" /\ "blob" \in Range(stages) /\ "dispatch" \notin Range(stages)) =>
        /\ dispatched = <<>>
        /\ mapViewError = CaptureError
        /\ ~isMapViewLoading

\* A capture that stitched and resampled its tiles and then got a null blob.
C15_Witness ==
    /\ pc = "idle"
    /\ stages = <<"fit", "wait", "project", "fetch", "stitch", "resample", "blob">>
    /\ finalCanvas # NoBounds
    /\ dispatched = <<>>

\* img.src of the tile requests of the running capture.
RequestedUrls == {tileUrl(tilePromises[i], capZoom) : i \in DOMAIN tilePromises}

\* C16 as stated: whatever base layer is active, the tiles a capture fetches
\* come from the tile source of the layer displayed on the map, at the map's
\* current zoom.
C16_Original ==
    pc = "fetch" =>
        \A u \in RequestedUrls : u.template = activeLayer.url /\ u.z = zoom

\* C16 amended: whatever base layer is active, the tiles a capture fetches come
\* from the fixed satellite source, which is the source of no selectable layer,
\* at the zoom the map has when the capture projects its bounds.
C16_SatelliteTiles ==
    /\ [](\A u \in RequestedUrls :
             /\ u.template = SATELLITE_TILE_URL
             /\ \A i \in DOMAIN MAP_LAYERS : u.template # MAP_LAYERS[i].url
             /\ u.z = capZoom)
    /\ [][(pc = "wait" /\ pc' # "wait") => capZoom' = zoom]_vars

\* Tiles requested at the zoomed-in level while a layer other than the default
\* one is shown.
C16_Witness ==
    /\ pc = "fetch"
    /\ Len(tilePromises) >= 2
    /\ activeLayer = MAP_LAYERS[3]
    /\ capZoom = INITIAL_ZOOM + 1

\* A step of the capture itself (not a user event, not a listener call).
CaptureMoves == pc' # pc \/ tileStatus' # tileStatus

\* C17 as stated: a capture mutates no shared state other than the
\* capture-in-progress flag; none of its steps changes the map's centre or zoom,
\* the radius, analysisBounds or landCoverData.
C17_Original ==
    [][CaptureMoves => UNCHANGED <<center, zoom, radius, analysisBounds, landCoverData>>]_vars

\* C17 amended: no step of a capture writes the radius, analysisBounds or
\* landCoverData, but its first step fits the viewport to the analysis bounds
\* (new centre, fitting zoom, moveend raised for the updateAll listeners) and
\* no later step of the capture moves the viewport again or restores it.
C17_ViewportRefitted ==
    [][CaptureMoves =>
          /\ UNCHANGED <<radius, analysisBounds, landCoverData>>
          /\ ~(pc = "idle" /\ pc' = "wait") => UNCHANGED <<center, zoom, pendingEvents>>
          /\ (pc = "idle" /\ pc' = "wait") =>
                /\ center' = FitCenter(analysisBounds)
                /\ zoom' \in Zooms
                /\ "moveend" \in pendingEvents'
                /\ zoom' # zoom => "zoomend" \in pendingEvents']_vars

\* A capture handed its file over and left the map at another zoom than the
\* initial one, with the events of the fit still to be delivered.
C17_Witness ==
    /\ pc = "idle"
    /\ Len(dispatched) = 1
    /\ zoom = INITIAL_ZOOM + 1
    /\ capZoom = zoom
    /\ pendingEvents = {"zoomend", "moveend"}

\* C18: a capture that failed because its region projected to zero pixel area
\* shows a message of its own ("cannot analyze this area"), not the generic
\* message of the tile and encoding failures.
C18_DegenerateMessage ==
    (Degenerate(pixelBounds) /\ pc = "idle") =>
        /\ mapViewError # NoError
        /\ mapViewError # CaptureError

\* C19: after the stitching, every pixel (px, py) of the stitching canvas holds
\* the pixel of tile (floor((min.x + px) / tileSize), floor((min.y + py) / tileSize))
\* at the in-tile position ((min.x + px) mod tileSize, (min.y + py) mod tileSize):
\* tiles reaching over the canvas edge are clipped, and no pixel stays undrawn.
C19_StitchPlacement ==
    "stitch" \in Range(stages) =>
        /\ stitchCanvas.width = getSize(pixelBounds).x
        /\ stitchCanvas.height = getSize(pixelBounds).y
        /\ \A p \in DOMAIN stitchCanvas.px :
              stitchCanvas.px[p] =
                  <<"tile",
                    (pixelBounds.min.x + p[1]) \div tileSize,
                    (pixelBounds.min.y + p[2]) \div tileSize,
                    (pixelBounds.min.x + p[1]) % tileSize,
                    (pixelBounds.min.y + p[2]) % tileSize>>

\* Four tiles stitched into a canvas that starts and ends inside tiles, so
\* that every one of them reaches over an edge of the canvas.
C19_Witness ==
    /\ "stitch" \in Range(stages)
    /\ Len(tilePromises) = 4
    /\ pixelBounds.min.x % tileSize # 0
    /\ pixelBounds.min.y % tileSize # 0
    /\ pixelBounds.max.x % tileSize # 0
    /\ pixelBounds.max.y % tileSize # 0

\* The requests reqs hold each tile index of the range of pb once and no other.
OnePerIndex(reqs, pb) ==
    LET xs == (pb.min.x \div tileSize)..(pb.max.x \div tileSize)
        ys == (pb.min.y \div tileSize)..(pb.max.y \div tileSize)
    IN  /\ \A x \in xs : \A y \in ys :
              Cardinality({i \in DOMAIN reqs : reqs[i] = [x |-> x, y |-> y]}) = 1
        /\ \A i \in DOMAIN reqs : reqs[i].x \in xs /\ reqs[i].y \in ys

\* C20: a capture issues exactly one request per tile index of its range and
\* none for another index; a request that failed is never issued again, and a
\* capture that failed is not started again unless the user clicks the enabled
\* button.
C20_OneFetchNoRetry ==
    /\ [](tilePromises # <<>> => OnePerIndex(tilePromises, pixelBounds))
    /\ [][/\ \A i \in DOMAIN tileStatus :
                tileStatus[i] = "failed" =>
                    \/ tileStatus' = <<>>
                    \/ i \in DOMAIN tileStatus' /\ tileStatus'[i] = "failed"
          /\ tilePromises' # tilePromises =>
                \/ pc = "wait" /\ pc' = "fetch"
                \/ pc = "idle" /\ pc' = "wait" /\ tilePromises' = <<>>
          /\ (pc # "wait" /\ pc' = "wait") =>
                pc = "idle" /\ AnalyzeButtonEnabled /\ PassesGuard]_vars

\* A capture of four tiles ended by the failure of one of them; another tile
\* loaded afterwards and nothing was requested again.
C20_Witness ==
    /\ pc = "idle"
    /\ mapViewError = CaptureError
    /\ Len(tilePromises) = 4
    /\ \E i, j \in DOMAIN tileStatus : tileStatus[i] = "failed" /\ tileStatus[j] = "loaded"
    /\ stages = <<"fit", "wait", "project", "fetch">>

\* C21: a capture that started with the bounds B is neither stopped nor
\* redirected by moving or zooming the map or by changing the radius (to 0
\* too): no such event changes its state, it projects B, requests the tiles
\* covering that projection, and ends with a file handed over or with an error.
C21_NoAbort ==
    /\ [](/\ pc # "idle" => capBounds = toBounds([x |-> 2, y |-> MaxCenterY], RadiusStep * 2)
          /\ pixelBounds # NoBounds =>
                /\ pixelBounds = LBounds(project(getNorthWest(capBounds), capZoom),
                                         project(getSouthEast(capBounds), capZoom))
                /\ tilePromises # <<>> => OnePerIndex(tilePromises, pixelBounds)
          /\ pc = "idle" =>
                \/ Len(dispatched) = 1 /\ mapViewError = NoError
                \/ dispatched = <<>> /\ mapViewError = CaptureError)
    /\ [][(center' # center \/ zoom' # zoom \/ radius' # radius
              \/ analysisBounds' # analysisBounds) => UNCHANGED captureVars]_vars
    /\ <>(pc = "idle")

\* The capture handed its file over although the radius was set to 0 and the
\* map moved and zoomed while it was in flight.
C21_Witness ==
    /\ pc = "idle"
    /\ Len(dispatched) = 1
    /\ radius = 0
    /\ analysisBounds = NoBounds
    /\ center # [x |-> 2, y |-> MaxCenterY]
    /\ capZoom = INITIAL_ZOOM + 1

\* The captured file was read and no read or request is outstanding.
CaptureSettled ==
    /\ mapImageForAnalysis # Null
    /\ imageFile = mapImageForAnalysis
    /\ previewImage = readAsDataURL(mapImageForAnalysis, TRUE)
    /\ readers = {}
    /\ requests = <<>>

\* C22: each capture handed over by handleAnalyzeFromMap causes exactly one
\* call of analyzeImageForBiodiversity: never more than one, and one once the
\* captured file was read, also when the section already held an image with a
\* loaded preview.
C22_OneCallPerCapture ==
    /\ effectCalls <= 1
    /\ CaptureSettled => effectCalls = 1

\* The image that the stored result is the segmentation of.
ResultSource == analysisResult.segmentedImage.base64.seg

\* C23: whenever analysisResult is non-null and no segmentation request is
\* outstanding, the result is the segmentation of the selected imageFile.
C23_ResultOfCurrentImage ==
    (analysisResult # Null /\ requests = <<>>) =>
        /\ imageFile # Null
        /\ ResultSource = Base64(imageFile.image)

\* C24: every call of analyzeImageForBiodiversity passes the bytes and the MIME
\* type of one file: the bytes sent are those of the file whose type is sent.
C24_BytesAndTypeOfOneFile ==
    \A k \in DOMAIN requests :
        /\ requests[k].mimeType = requests[k].imageFile.type
        /\ requests[k].base64Image = Base64(requests[k].imageFile.image)


\* C25: isLoading is true whenever at least one segmentation request is
\* outstanding.
C25_LoadingWhileOutstanding == requests # <<>> => isLoading


\* The Analysis section where every read that was started ends and every
\* request that was sent settles, each with either outcome.
ReadEnds == \E f \in readers, ok \in BOOLEAN : ReaderLoadEnd(f, ok)

RequestSettles ==
    \E k \in DOMAIN requests : \E response \in ImageResponses(requests[k]) :
        AnalysisResponse(k, response)

FairAnalysis ==
    InitReady /\ [][NextAnalysis]_vars /\ WF_vars(ReadEnds) /\ WF_vars(RequestSettles)

\* C26: once handleAnalyzeFromMap has set startAnalysis, startAnalysis
\* eventually is false again, given that reads and requests complete.
C26_StartAnalysisReturns == startAnalysis ~> ~startAnalysis


\* C27: once no report request is outstanding, sustainabilityReport and
\* reportError are not both non-null.
C27_ReportOrError ==
    reportRequests = <<>> => ~(sustainabilityReport # Null /\ reportError # NoError)


\* C29: when 'Get Insights' is clicked only while the button is enabled,
\* insights and insightsError are never both non-null.
C29_InsightsOrError == ~(insights # Null /\ insightsError # NoError)

\* Insights arrived for a custom topic, nothing outstanding.
C29_Witness ==
    /\ insights # Null /\ insightsError = NoError
    /\ insightsRequests = <<>> /\ ~isInsightsLoading
    /\ trim(customTopic) # ""


\* C30: at most one updateAll listener is registered for 'moveend' and at most
\* one for 'zoomend' (every entry of listeners is one updateAll, registered
\* for both events).
C30_OneListener == Len(listeners) <= 1


\* C28: once every fetch has settled, what LocalMapIframe displays is the
\* outcome of the fetch of the current url: when it displays a document, the
\* document is the one served at url.
C28_DisplaysCurrentUrl ==
    (fetches = <<>> /\ iframeError = NoError) => htmlContent = Html(url)

====
